---- MODULE Spec2Model ----
(***************************************************************************)
(* Model of the graceful-shutdown server kata                              *)
(* (01-context-cancellation-concurrency/03-graceful-shutdown-server):      *)
(* the generic WorkerPool, the Future built on context.WithCancelCause,    *)
(* the ConnPool behind the Database, the Application that owns them, and   *)
(* the context tree they hang from; and of two of the repository's         *)
(* standalone katas, the single-flight TTL cache and the Retryer.          *)
(*                                                                         *)
(* Contexts.  A context is represented by its cancellation cause           *)
(* (NoCause while it is live).  context.WithCancelCause(parent) registers  *)
(* the child with the parent: cancelling the parent cancels, under the     *)
(* parent's lock, every child that is still live, giving it the parent's   *)
(* cause; a cancel of an already cancelled context is a no-op.  The        *)
(* cascade is one step of the model.                                       *)
(***************************************************************************)
EXTENDS Integers, Sequences, FiniteSets, TLC

\* ---------------------------------------------------------------- bounds
PoolSize == 1        \* the size argument of NewWorkerPool
MaxFutures == 4      \* number of Submit calls explored
MaxSolo == 1         \* number of futures built directly with NewFuture
PoolCap == 1         \* the cap argument of NewPool
MaxCalls == 3        \* number of Execute calls explored
MaxTasks == 2        \* number of tasks submitted while the refresher is watched
MaxTicks == 2        \* number of ticks the cache's ticker delivers
MaxGets == 2         \* number of concurrent Cache.Get calls on the key
MaxAttempts == 3     \* largest maxAttempts a Retryer is built with

\* ------------------------------------------------------ program constants
QueueFactor == 2     \* make(chan *Future[R], size*2)

Workers == 1..PoolSize
ShutdownCallers == {"s1", "s2"}   \* goroutines that call Shutdown
Runners == {"g1", "g2"}           \* goroutines that call Future.Run themselves
QueueCap == PoolSize * QueueFactor
ExecCallers == {1, 2, 3}             \* goroutines that call ConnPool.Execute
ConnShutdownCallers == {"d1", "d2"}  \* goroutines that call ConnPool.Shutdown

\* Tokens a caller can hand to Submit: the application's root context and a
\* request context (net/http derives it from context.Background, so it is
\* not a descendant of the root).
Tokens == {"root", "req"}

\* The request contexts of the running server, one per request served.
ReqTokens == {"req", "req2"}
AllTokens == Tokens \cup ReqTokens

\* Application.Shutdown as it would be if it went through the components in
\* the order InitApplication builds them.
ShutdownStepsAsBuilt == <<"db", "cache", "pool", "http">>

\* Application.Shutdown: the components in the order it shuts them down.
ShutdownSteps == <<"http", "pool", "cache", "db">>

\* Errors and results as the code produces them.
NoCause == [kind |-> "none"]
PlainCause(e) == [kind |-> "err", err |-> e]
Zero == "zero"
Nil == "nil"
Canceled == "context canceled"
ErrWorkerPoolShutdown == "worker pool is shutdown"
ErrTaskQueueFull == "task queue is full"
TaskPanicked == "task panicked: boom"
ErrTask == "task error"
ErrAlreadyShutdown == "already shutdown"
ErrFactory == "dial error"
ErrFn == "fn error"
PanicFn == "fn panic"

\* The goroutines that call Cache.Get on the key.
GetCallers == 1..MaxGets

\* Errors of the Retryer kata.  An error is represented by the set of the
\* errors errors.Is and errors.As find in its tree; nil is the empty set.
NilErr == {}
ErrMaxRetryReached == {"max retry reached"}
ErrTransient == {"transient error"}
ErrNetTimeout == {"net.Error with Timeout"}
ErrNetOther == {"net.Error without Timeout"}
ErrFatal == {"fatal error"}
ErrWrappedTransient == {"call failed", "transient error"}
ErrCtx == {"context canceled"}

\* What fn can return to Do.
FnErrors == {NilErr, ErrTransient, ErrNetTimeout, ErrNetOther, ErrFatal,
             ErrWrappedTransient}

\* What fn can do once it has the connection: return nil, return an error,
\* panic.
FnOutcomes == {Nil, ErrFn, PanicFn}

\* Tasks, by what they do when invoked: the three shapes of a return pair
\* and a panic.  The request handlers' tasks are those of PoolTasks.
UserTasks == {"ok", "err", "both", "panic"}
PoolTasks == {"ok", "panic"}

VARIABLES
    tokErr,       \* tokErr[t]: ctx.Err() of the caller-side token t
    poolCause,    \* context.Cause(wp.ctx)
    wgCount,      \* wp.workerWaitGroup counter
    taskQueue,    \* wp.taskQueue: buffered channel of futures (ids)
    futs,         \* every Future created by Submit, in creation order
    wpc,          \* wpc[w]: position of worker goroutine w
    wfut,         \* wfut[w]: the future worker w is running (0: none)
    spc,          \* spc[s]: position of a caller of Shutdown
    running,      \* running[g]: future goroutine g is inside Run of (0: none)
    cpErr,        \* cp.ctx.Err() of the ConnPool
    sema,         \* number of tokens in cp.sema
    cwg,          \* cp.wg counter
    idleCons,     \* cp.idleCons: buffered channel of connections (ids)
    idleClosed,   \* whether cp.idleCons has been closed
    nconn,        \* number of connections the factory has produced
    closedConns,  \* connections on which Close has been called
    epc,          \* epc[e]: position of caller e inside Execute
    econn,        \* econn[e]: the connection e holds (0: nil)
    eres,         \* eres[e]: what fn did / what Execute returned
    ectx,         \* ectx[e]: ctx.Err() of the context e passed to Execute
    etask,        \* etask[e]: the future whose task made the call (0: none)
    cspc,         \* cspc[s]: position of a caller of ConnPool.Shutdown
    ncalls,       \* number of Execute calls made
    appc,         \* position of the goroutine running Application.Start/Shutdown
    appi,         \* index in ShutdownSteps of the step Application.Shutdown is at
    httpc,        \* state of the http.Server
    cacheErr,     \* c.ctx.Err() of the cache
    cacheShut,    \* whether cache.Shutdown has been called and has returned
    cachec,       \* position of the cache's pooling goroutine
    njobs,        \* number of c.refresh() calls started
    ticks,        \* number of ticks the ticker has delivered on ticker.C
    tickCh,       \* number of ticks waiting in ticker.C (capacity 1)
    sfItem,       \* c.c[key] of the single-flight Cache: none, fresh, expired
    sfFlight,     \* the call of the singleflight.Group for the key
    sfChan,       \* sfChan[c]: the channel DoChan gave to caller c
    loads,        \* number of loader invocations
    gpc,          \* gpc[c]: position of caller c inside Cache.Get
    gctx,         \* gctx[c]: ctx.Err() of the context c passed to Get
    sfClean,      \* no cached value has expired and no load has failed
    rpc,          \* position of the caller of Retryer.Do
    rmax,         \* r.maxAttempts
    rlog,         \* what fn returned, call by call
    rres,         \* what Do returned
    rctx,         \* ctx.Err() of the context passed to Do
    rtimer,       \* the backoff timer: none, armed, fired (a value in t.C)
    rwhen         \* where Do was when its context was cancelled

wpVars == <<tokErr, poolCause, wgCount, taskQueue, futs, wpc, wfut, spc, running>>
connRest == <<sema, cwg, idleCons, idleClosed, nconn, closedConns, epc, econn,
              eres, ectx, etask, cspc, ncalls>>
connVars == <<cpErr, connRest>>
appRest == <<appc, appi, httpc, cacheShut>>
cacheLoop == <<cachec, njobs, ticks, tickCh>>
appVars == <<cacheErr, appRest, cacheLoop>>
sfVars == <<sfItem, sfFlight, sfChan, loads, gpc, gctx, sfClean>>
rtVars == <<rpc, rmax, rlog, rres, rctx, rtimer, rwhen>>
kataVars == <<sfVars, rtVars>>
vars == <<wpVars, connVars, appVars, kataVars>>

\* ------------------------------------------------------------- futures

\* futureResult: the cause a Future's callback stores.
futureResult(result, err) == [kind |-> "result", result |-> result, err |-> err]

\* The cause of a context derived from a caller-side token at creation:
\* a cancelled parent cancels the child at once with its own cause.
DerivedCause(tok) ==
    IF tokErr[tok] # Nil THEN PlainCause(tokErr[tok]) ELSE NoCause

\* NewFuture: ctx derived from the context handed in, task stored.
NewFuture(tok, task) ==
    [tok |-> tok, task |-> task, cause |-> DerivedCause(tok), runs |-> 0]

\* callback as it would be if the stored pair were a plain field assigned on
\* every call (last writer wins).
callbackLastWins(cause, result, err) == futureResult(result, err)

\* Future.callback: cancel(&futureResult{result, err}); the first cancel of
\* a context wins, later ones leave the cause alone.
callback(cause, result, err) ==
    IF cause = NoCause THEN futureResult(result, err) ELSE cause

\* Future.IsDone: f.ctx.Err() != nil.
IsDone(f) == f.cause # NoCause

\* What f.task(f.ctx) does: its return pair, or a panic.
TaskBody(task) ==
    CASE task = "ok"    -> [panics |-> FALSE, result |-> "r1", err |-> Nil]
      [] task = "err"   -> [panics |-> FALSE, result |-> Zero, err |-> ErrTask]
      [] task = "both"  -> [panics |-> FALSE, result |-> "r1", err |-> ErrTask]
      [] task = "panic" -> [panics |-> TRUE, result |-> Zero, err |-> Nil]
      [] task = "stubShutdown" ->
            [panics |-> FALSE, result |-> Zero, err |-> ErrWorkerPoolShutdown]
      [] task = "stubFull" ->
            [panics |-> FALSE, result |-> Zero, err |-> ErrTaskQueueFull]

\* invoke as it would be without the deferred recover: the panic leaves it.
invokeNoRecover(task) ==
    LET b == TaskBody(task) IN
    [cbs |-> << >>, ret |-> <<b.result, b.err>>, escapes |-> b.panics]

\* Future.invoke: runs the task under a deferred recover.  A recovered panic
\* calls callback(zero, "task panicked: ...") and invoke then returns the
\* zero values of its unnamed results.  cbs: the callbacks made inside
\* invoke; ret: what invoke returns; escapes: whether the panic leaves invoke.
invoke(task) ==
    LET b == TaskBody(task) IN
    IF b.panics
    THEN [cbs |-> << <<Zero, TaskPanicked>> >>, ret |-> <<Zero, Nil>>,
          escapes |-> FALSE]
    ELSE [cbs |-> << >>, ret |-> <<b.result, b.err>>, escapes |-> FALSE]

RECURSIVE ApplyCallbacks(_, _)
ApplyCallbacks(cause, cbs) ==
    IF cbs = << >> THEN cause
    ELSE ApplyCallbacks(callback(cause, Head(cbs)[1], Head(cbs)[2]), Tail(cbs))

\* The cause of the future's context once Run's invoke has returned and Run
\* has called f.callback(result, err).
RunFinish(f) ==
    LET i == invoke(f.task) IN
    IF i.escapes THEN ApplyCallbacks(f.cause, i.cbs)
    ELSE ApplyCallbacks(f.cause, i.cbs \o <<i.ret>>)

\* Get as it would be if it returned the zero value with the error in
\* every case.
GetErrOnly(f) == <<Zero, f.cause.err>>

\* Future.Get once Done is closed: the stored pair, or the zero value and
\* the plain cause when the context was cancelled through its parent.
Get(f) ==
    IF f.cause.kind = "result" THEN <<f.cause.result, f.cause.err>>
    ELSE <<Zero, f.cause.err>>

\* ------------------------------------------------------------ the pool

\* workerPool.IsShutdown: wp.ctx.Err() != nil.
IsShutdown(cause) == cause # NoCause

Init ==
    /\ tokErr = [t \in AllTokens |-> Nil]
    /\ poolCause = NoCause
    /\ wgCount = 0
    /\ taskQueue = << >>
    /\ futs = << >>
    /\ wpc = [w \in Workers |-> "spawned"]
    /\ wfut = [w \in Workers |-> 0]
    /\ spc = [s \in ShutdownCallers |-> "idle"]
    /\ running = [g \in Runners |-> 0]
    /\ cpErr = Nil
    /\ sema = 0
    /\ cwg = 0
    /\ idleCons = << >>
    /\ idleClosed = FALSE
    /\ nconn = 0
    /\ closedConns = {}
    /\ epc = [e \in ExecCallers |-> "idle"]
    /\ econn = [e \in ExecCallers |-> 0]
    /\ eres = [e \in ExecCallers |-> Nil]
    /\ ectx = [e \in ExecCallers |-> Nil]
    /\ etask = [e \in ExecCallers |-> 0]
    /\ cspc = [s \in ConnShutdownCallers |-> "idle"]
    /\ ncalls = 0
    /\ appc = "serving"
    /\ appi = 1
    /\ httpc = "listening"
    /\ cacheErr = Nil
    /\ cacheShut = FALSE
    /\ cachec = "spawned"
    /\ njobs = 0
    /\ ticks = 0
    /\ tickCh = 0
    /\ sfItem = "none"
    /\ sfFlight = "none"
    /\ sfChan = [c \in GetCallers |-> "none"]
    /\ loads = 0
    /\ gpc = [c \in GetCallers |-> "idle"]
    /\ gctx = [c \in GetCallers |-> Nil]
    /\ sfClean = TRUE
    /\ rpc = "new"
    /\ rmax = 0
    /\ rlog = << >>
    /\ rres = NilErr
    /\ rctx = NilErr
    /\ rtimer = "none"
    /\ rwhen = "none"

\* Cancelling a caller-side token cancels every live future derived from it.
CascadeFutures(tok, e) ==
    [i \in DOMAIN futs |->
        IF futs[i].tok = tok /\ futs[i].cause = NoCause
        THEN [futs[i] EXCEPT !.cause = PlainCause(e)]
        ELSE futs[i]]

\* app.cancel(): the root context is cancelled; the worker pool's context is
\* its child (NewWorkerPool), so are the ConnPool's (NewPool), the cache's
\* (NewCache) and every future submitted with the root.
CancelRoot ==
    /\ tokErr["root"] = Nil
    /\ tokErr' = [tokErr EXCEPT !["root"] = Canceled]
    /\ poolCause' = IF poolCause = NoCause THEN PlainCause(Canceled) ELSE poolCause
    /\ futs' = CascadeFutures("root", Canceled)
    /\ UNCHANGED <<wgCount, taskQueue, wpc, wfut, spc, running>>
    /\ cpErr' = IF cpErr = Nil THEN Canceled ELSE cpErr
    /\ cacheErr' = IF cacheErr = Nil THEN Canceled ELSE cacheErr
    /\ UNCHANGED <<connRest, appRest, cacheLoop, kataVars>>

\* A request context is cancelled (client gone, handler returned).
CancelRequest(t) ==
    /\ tokErr[t] = Nil
    /\ tokErr' = [tokErr EXCEPT ![t] = Canceled]
    /\ futs' = CascadeFutures(t, Canceled)
    /\ UNCHANGED <<poolCause, wgCount, taskQueue, wpc, wfut, spc, running>>
    /\ UNCHANGED <<connVars, appVars, kataVars>>

CancelReq == CancelRequest("req")

\* Submit as it would be without its IsShutdown check.
SubmitNoCheck(tok, task) ==
    /\ Len(futs) < MaxFutures
    /\ IF Len(taskQueue) < QueueCap
       THEN /\ futs' = Append(futs, NewFuture(tok, task))
            /\ taskQueue' = Append(taskQueue, Len(futs) + 1)
       ELSE /\ futs' = Append(futs, NewFuture(tok, "stubFull"))
            /\ UNCHANGED taskQueue
    /\ UNCHANGED <<tokErr, poolCause, wgCount, wpc, wfut, spc, running>>
    /\ UNCHANGED <<connVars, appVars, kataVars>>

\* workerPool.Submit: the IsShutdown check, NewFuture and the non-blocking
\* send, taken as one step.  A rejection returns a fresh Future around a stub
\* task that returns the error; nothing runs that stub.
Submit(tok, task) ==
    /\ Len(futs) < MaxFutures
    /\ IF IsShutdown(poolCause)
       THEN /\ futs' = Append(futs, NewFuture(tok, "stubShutdown"))
            /\ UNCHANGED taskQueue
       ELSE IF Len(taskQueue) < QueueCap
       THEN /\ futs' = Append(futs, NewFuture(tok, task))
            /\ taskQueue' = Append(taskQueue, Len(futs) + 1)
       ELSE /\ futs' = Append(futs, NewFuture(tok, "stubFull"))
            /\ UNCHANGED taskQueue
    /\ UNCHANGED <<tokErr, poolCause, wgCount, wpc, wfut, spc, running>>
    /\ UNCHANGED <<connVars, appVars, kataVars>>

\* worker: wp.workerWaitGroup.Add(1), first statement of the goroutine.
WorkerAdd(w) ==
    /\ wpc[w] = "spawned"
    /\ wgCount' = wgCount + 1
    /\ wpc' = [wpc EXCEPT ![w] = "loop"]
    /\ UNCHANGED <<tokErr, poolCause, taskQueue, futs, wfut, spc, running>>
    /\ UNCHANGED <<connVars, appVars, kataVars>>

\* worker: top of the loop, if wp.IsShutdown() { return } (deferred Done).
WorkerCheck(w) ==
    /\ wpc[w] = "loop"
    /\ IF IsShutdown(poolCause)
       THEN /\ wpc' = [wpc EXCEPT ![w] = "exited"]
            /\ wgCount' = wgCount - 1
       ELSE /\ wpc' = [wpc EXCEPT ![w] = "select"]
            /\ UNCHANGED wgCount
    /\ UNCHANGED <<tokErr, poolCause, taskQueue, futs, wfut, spc, running>>
    /\ UNCHANGED <<connVars, appVars, kataVars>>

\* The worker's receive as it would be if the queue handed out the future
\* sent last.
WorkerTakeNewest(w) ==
    /\ wpc[w] = "select"
    /\ taskQueue # << >>
    /\ LET id == taskQueue[Len(taskQueue)] IN
       /\ taskQueue' = SubSeq(taskQueue, 1, Len(taskQueue) - 1)
       /\ IF IsDone(futs[id])
          THEN /\ wpc' = [wpc EXCEPT ![w] = "loop"]
               /\ UNCHANGED <<futs, wfut>>
          ELSE /\ wpc' = [wpc EXCEPT ![w] = "running"]
               /\ wfut' = [wfut EXCEPT ![w] = id]
               /\ futs' = [futs EXCEPT ![id].runs = @ + 1]
    /\ UNCHANGED <<tokErr, poolCause, wgCount, spc, running>>
    /\ UNCHANGED <<connVars, appVars, kataVars>>

\* worker: select case future := <-wp.taskQueue, then future.Run() up to the
\* call of the task: a done future is skipped, otherwise the task starts.
WorkerTake(w) ==
    /\ wpc[w] = "select"
    /\ taskQueue # << >>
    /\ LET id == Head(taskQueue) IN
       /\ taskQueue' = Tail(taskQueue)
       /\ IF IsDone(futs[id])
          THEN /\ wpc' = [wpc EXCEPT ![w] = "loop"]
               /\ UNCHANGED <<futs, wfut>>
          ELSE /\ wpc' = [wpc EXCEPT ![w] = "running"]
               /\ wfut' = [wfut EXCEPT ![w] = id]
               /\ futs' = [futs EXCEPT ![id].runs = @ + 1]
    /\ UNCHANGED <<tokErr, poolCause, wgCount, spc, running>>
    /\ UNCHANGED <<connVars, appVars, kataVars>>

\* worker: select case <-wp.ctx.Done(): return (deferred Done).
WorkerDone(w) ==
    /\ wpc[w] = "select"
    /\ IsShutdown(poolCause)
    /\ wpc' = [wpc EXCEPT ![w] = "exited"]
    /\ wgCount' = wgCount - 1
    /\ UNCHANGED <<tokErr, poolCause, taskQueue, futs, wfut, spc, running>>
    /\ UNCHANGED <<connVars, appVars, kataVars>>

\* worker: the task returns (or panics) and Run stores the outcome.  A panic
\* that leaves invoke unwinds the goroutine and the process dies.
WorkerFinish(w) ==
    /\ wpc[w] = "running"
    /\ LET id == wfut[w] IN
       /\ futs' = [futs EXCEPT ![id].cause = RunFinish(futs[id])]
       /\ wpc' = [wpc EXCEPT ![w] =
                    IF invoke(futs[id].task).escapes THEN "crashed" ELSE "loop"]
    /\ wfut' = [wfut EXCEPT ![w] = 0]
    /\ UNCHANGED <<tokErr, poolCause, wgCount, taskQueue, spc, running>>
    /\ UNCHANGED <<connVars, appVars, kataVars>>

\* Shutdown as it would be without its IsShutdown early return.
ShutdownNoCheck(s) ==
    /\ spc[s] \in {"idle", "returnedEarly", "returnedWaited"}
    /\ poolCause' = IF poolCause = NoCause
                    THEN PlainCause(ErrWorkerPoolShutdown) ELSE poolCause
    /\ spc' = [spc EXCEPT ![s] = "waiting"]
    /\ UNCHANGED <<tokErr, wgCount, taskQueue, futs, wpc, wfut, running>>
    /\ UNCHANGED <<connVars, appVars, kataVars>>

\* workerPool.Shutdown up to the Wait: an already cancelled pool context
\* returns at once, otherwise wp.cancel(ErrWorkerPoolShutdown).
Shutdown(s) ==
    /\ spc[s] \in {"idle", "returnedEarly", "returnedWaited"}
    /\ IF IsShutdown(poolCause)
       THEN /\ spc' = [spc EXCEPT ![s] = "returnedEarly"]
            /\ UNCHANGED poolCause
       ELSE /\ poolCause' = PlainCause(ErrWorkerPoolShutdown)
            /\ spc' = [spc EXCEPT ![s] = "waiting"]
    /\ UNCHANGED <<tokErr, wgCount, taskQueue, futs, wpc, wfut, running>>
    /\ UNCHANGED <<connVars, appVars, kataVars>>

\* workerPool.Shutdown: wp.workerWaitGroup.Wait() returns, which it does
\* whenever it finds the counter at zero, also when a worker has not yet
\* reached its Add.
ShutdownWait(s) ==
    /\ spc[s] = "waiting"
    /\ wgCount = 0
    /\ spc' = [spc EXCEPT ![s] = "returnedWaited"]
    /\ UNCHANGED <<tokErr, poolCause, wgCount, taskQueue, futs, wpc, wfut, running>>
    /\ UNCHANGED <<connVars, appVars, kataVars>>

\* NewFuture called directly by a holder of a token.
Create(tok, task) ==
    /\ Len(futs) < MaxSolo
    /\ futs' = Append(futs, NewFuture(tok, task))
    /\ UNCHANGED <<tokErr, poolCause, wgCount, taskQueue, wpc, wfut, spc, running>>
    /\ UNCHANGED <<connVars, appVars, kataVars>>

\* Cancel as it would be if it stored its pair whatever the future holds.
CancelOverwrite(id) ==
    /\ id \in DOMAIN futs
    /\ futs' = [futs EXCEPT ![id].cause = futureResult(Zero, Canceled)]
    /\ UNCHANGED <<tokErr, poolCause, wgCount, taskQueue, wpc, wfut, spc, running>>
    /\ UNCHANGED <<connVars, appVars, kataVars>>

\* Future.Cancel called by any holder of the future.
Cancel(id) ==
    /\ id \in DOMAIN futs
    /\ futs' = [futs EXCEPT ![id].cause = callback(@, Zero, Canceled)]
    /\ UNCHANGED <<tokErr, poolCause, wgCount, taskQueue, wpc, wfut, spc, running>>
    /\ UNCHANGED <<connVars, appVars, kataVars>>

\* Run as it would be without its IsDone check.
RunNoCheck(g, id) ==
    /\ running[g] = 0
    /\ id \in DOMAIN futs
    /\ running' = [running EXCEPT ![g] = id]
    /\ futs' = [futs EXCEPT ![id].runs = @ + 1]
    /\ UNCHANGED <<tokErr, poolCause, wgCount, taskQueue, wpc, wfut, spc>>
    /\ UNCHANGED <<connVars, appVars, kataVars>>

\* Future.Run called by goroutine g, up to the call of the task: a done
\* future is left alone, otherwise the task starts.
Run(g, id) ==
    /\ running[g] = 0
    /\ id \in DOMAIN futs
    /\ IF IsDone(futs[id])
       THEN UNCHANGED <<running, futs>>
       ELSE /\ running' = [running EXCEPT ![g] = id]
            /\ futs' = [futs EXCEPT ![id].runs = @ + 1]
    /\ UNCHANGED <<tokErr, poolCause, wgCount, taskQueue, wpc, wfut, spc>>
    /\ UNCHANGED <<connVars, appVars, kataVars>>

\* ... the task returns and Run stores the outcome.
RunReturn(g) ==
    /\ running[g] # 0
    /\ futs' = [futs EXCEPT ![running[g]].cause = RunFinish(futs[running[g]])]
    /\ running' = [running EXCEPT ![g] = 0]
    /\ UNCHANGED <<tokErr, poolCause, wgCount, taskQueue, wpc, wfut, spc>>
    /\ UNCHANGED <<connVars, appVars, kataVars>>

\* -------------------------------------------------------- the ConnPool

\* ConnPool.IsShutdown: cp.ctx.Err() != nil.
ConnIsShutdown == cpErr # Nil

\* ctx.Err() of the context a caller handed to Execute: its own token, or,
\* for a call made by a future's task, the future's context.
CallerErr(e) ==
    IF etask[e] = 0 THEN ectx[e]
    ELSE IF IsDone(futs[etask[e]]) THEN Canceled ELSE Nil

\* Execute as it would leave if it recovered a panic of fn in a deferred call.
ExitPcRecovered(r) == "returned"

\* How a call that ends with eres = r leaves Execute: a panic of fn goes on
\* through Execute's deferred calls to the caller, anything else is returned.
ExitPc(r) == IF r = PanicFn THEN "panicked" ELSE "returned"

\* The caller's token is cancelled while its Execute call is in progress.
CancelCaller(e) ==
    /\ epc[e] \notin {"idle", "returned", "panicked"}
    /\ etask[e] = 0
    /\ ectx[e] = Nil
    /\ ectx' = [ectx EXCEPT ![e] = Canceled]
    /\ UNCHANGED <<cpErr, sema, cwg, idleCons, idleClosed, nconn, closedConns,
                   epc, econn, eres, etask, cspc, ncalls>>
    /\ UNCHANGED <<wpVars, appVars, kataVars>>

\* ConnPool.Execute is called (tid: the future whose task calls it, 0 for
\* any other caller): if cp.IsShutdown() { return "already shutdown" }.
ExecuteCall(e, tid) ==
    /\ epc[e] \in {"idle", "returned"}
    /\ ncalls < MaxCalls
    /\ ncalls' = ncalls + 1
    /\ etask' = [etask EXCEPT ![e] = tid]
    /\ ectx' = [ectx EXCEPT ![e] = Nil]
    /\ IF ConnIsShutdown
       THEN /\ epc' = [epc EXCEPT ![e] = "returned"]
            /\ eres' = [eres EXCEPT ![e] = ErrAlreadyShutdown]
       ELSE /\ epc' = [epc EXCEPT ![e] = "gate"]
            /\ eres' = [eres EXCEPT ![e] = Nil]
    /\ UNCHANGED <<cpErr, sema, cwg, idleCons, idleClosed, nconn, closedConns,
                   econn, cspc>>
    /\ UNCHANGED <<wpVars, appVars, kataVars>>

\* Execute, at its select: case <-ctx.Done(): return ctx.Err().
ExecuteGateCancel(e) ==
    /\ epc[e] = "gate"
    /\ CallerErr(e) # Nil
    /\ epc' = [epc EXCEPT ![e] = "returned"]
    /\ eres' = [eres EXCEPT ![e] = CallerErr(e)]
    /\ UNCHANGED <<cpErr, sema, cwg, idleCons, idleClosed, nconn, closedConns,
                   econn, ectx, etask, cspc, ncalls>>
    /\ UNCHANGED <<wpVars, appVars, kataVars>>

\* The select as it would be if the send were never refused.
ExecuteGateAdmitUnbounded(e) ==
    /\ epc[e] = "gate"
    /\ sema' = sema + 1
    /\ epc' = [epc EXCEPT ![e] = "admitted"]
    /\ UNCHANGED <<cpErr, cwg, idleCons, idleClosed, nconn, closedConns,
                   econn, eres, ectx, etask, cspc, ncalls>>
    /\ UNCHANGED <<wpVars, appVars, kataVars>>

\* Execute, at its select: case cp.sema <- struct{}{}: defer release.  The
\* send goes through while the channel (capacity cap) has room.
ExecuteGateAdmit(e) ==
    /\ epc[e] = "gate"
    /\ sema < PoolCap
    /\ sema' = sema + 1
    /\ epc' = [epc EXCEPT ![e] = "admitted"]
    /\ UNCHANGED <<cpErr, cwg, idleCons, idleClosed, nconn, closedConns,
                   econn, eres, ectx, etask, cspc, ncalls>>
    /\ UNCHANGED <<wpVars, appVars, kataVars>>

\* Execute: select { case <-ctx.Done(): ...; case cp.sema <- struct{}{}: ... }
\* takes either case that is ready.
ExecuteGate(e) == ExecuteGateCancel(e) \/ ExecuteGateAdmit(e)

\* Execute as it would be if Get had no shutdown check of its own.
ExecuteAddNoCheck(e) ==
    /\ epc[e] = "admitted"
    /\ epc' = [epc EXCEPT ![e] = "getsel"]
    /\ cwg' = cwg + 1
    /\ UNCHANGED <<cpErr, sema, idleCons, idleClosed, nconn, closedConns,
                   econn, eres, ectx, etask, cspc, ncalls>>
    /\ UNCHANGED <<wpVars, appVars, kataVars>>

\* Execute: cp.wg.Add(1); defer cp.wg.Done(); then cp.Get up to its shutdown
\* check, whose error makes Execute return through Done and the release.
ExecuteAdd(e) ==
    /\ epc[e] = "admitted"
    /\ IF ConnIsShutdown
       THEN /\ epc' = [epc EXCEPT ![e] = "returned"]
            /\ eres' = [eres EXCEPT ![e] = ErrAlreadyShutdown]
            /\ sema' = sema - 1
            /\ UNCHANGED cwg
       ELSE /\ epc' = [epc EXCEPT ![e] = "getsel"]
            /\ cwg' = cwg + 1
            /\ UNCHANGED <<eres, sema>>
    /\ UNCHANGED <<cpErr, idleCons, idleClosed, nconn, closedConns,
                   econn, ectx, etask, cspc, ncalls>>
    /\ UNCHANGED <<wpVars, appVars, kataVars>>

\* Get as it would be if it dialled whenever its context is live, without
\* looking at the idle connections first.
ConnGetSelectDialFirst(e) ==
    /\ epc[e] = "getsel"
    /\ \/ /\ CallerErr(e) # Nil
          /\ epc' = [epc EXCEPT ![e] = "returned"]
          /\ eres' = [eres EXCEPT ![e] = CallerErr(e)]
          /\ cwg' = cwg - 1
          /\ sema' = sema - 1
       \/ /\ CallerErr(e) = Nil
          /\ epc' = [epc EXCEPT ![e] = "factory"]
          /\ UNCHANGED <<eres, cwg, sema>>
    /\ UNCHANGED <<cpErr, idleCons, idleClosed, nconn, closedConns, econn, ectx,
                   etask, cspc, ncalls>>
    /\ UNCHANGED <<wpVars, appVars, kataVars>>

\* ConnPool.Get: select { case <-ctx.Done(): return nil, ctx.Err();
\* case conn := <-cp.idleCons: return conn, nil; default: cp.factory() }.
\* A receive from a closed and empty channel yields the nil connection.
ConnGetSelect(e) ==
    /\ epc[e] = "getsel"
    /\ \/ /\ CallerErr(e) # Nil
          /\ epc' = [epc EXCEPT ![e] = "returned"]
          /\ eres' = [eres EXCEPT ![e] = CallerErr(e)]
          /\ cwg' = cwg - 1
          /\ sema' = sema - 1
          /\ UNCHANGED <<idleCons, econn>>
       \/ /\ idleCons # << >>
          /\ econn' = [econn EXCEPT ![e] = Head(idleCons)]
          /\ idleCons' = Tail(idleCons)
          /\ epc' = [epc EXCEPT ![e] = "fn"]
          /\ UNCHANGED <<eres, cwg, sema>>
       \/ /\ idleCons = << >> /\ idleClosed
          /\ econn' = [econn EXCEPT ![e] = 0]
          /\ epc' = [epc EXCEPT ![e] = "fn"]
          /\ UNCHANGED <<idleCons, eres, cwg, sema>>
       \/ /\ CallerErr(e) = Nil /\ idleCons = << >> /\ ~idleClosed
          /\ epc' = [epc EXCEPT ![e] = "factory"]
          /\ UNCHANGED <<idleCons, econn, eres, cwg, sema>>
    /\ UNCHANGED <<cpErr, idleClosed, nconn, closedConns, ectx, etask, cspc, ncalls>>
    /\ UNCHANGED <<wpVars, appVars, kataVars>>

\* The factory's return as it would be if the release of the slot were not
\* deferred but written after fn: an error return keeps the slot.
FactoryReturnNoRelease(e, ok) ==
    /\ epc[e] = "factory"
    /\ IF ok
       THEN /\ nconn' = nconn + 1
            /\ econn' = [econn EXCEPT ![e] = nconn + 1]
            /\ epc' = [epc EXCEPT ![e] = "fn"]
            /\ UNCHANGED <<eres, cwg>>
       ELSE /\ epc' = [epc EXCEPT ![e] = "returned"]
            /\ eres' = [eres EXCEPT ![e] = ErrFactory]
            /\ cwg' = cwg - 1
            /\ UNCHANGED <<nconn, econn>>
    /\ UNCHANGED <<cpErr, sema, idleCons, idleClosed, closedConns, ectx, etask,
                   cspc, ncalls>>
    /\ UNCHANGED <<wpVars, appVars, kataVars>>

\* cp.factory() returns: a new connection, or an error that Get and Execute
\* pass on.
FactoryReturn(e, ok) ==
    /\ epc[e] = "factory"
    /\ IF ok
       THEN /\ nconn' = nconn + 1
            /\ econn' = [econn EXCEPT ![e] = nconn + 1]
            /\ epc' = [epc EXCEPT ![e] = "fn"]
            /\ UNCHANGED <<eres, cwg, sema>>
       ELSE /\ epc' = [epc EXCEPT ![e] = "returned"]
            /\ eres' = [eres EXCEPT ![e] = ErrFactory]
            /\ cwg' = cwg - 1
            /\ sema' = sema - 1
            /\ UNCHANGED <<nconn, econn>>
    /\ UNCHANGED <<cpErr, idleCons, idleClosed, closedConns, ectx, etask, cspc, ncalls>>
    /\ UNCHANGED <<wpVars, appVars, kataVars>>

\* The return of fn as it would be if Put, on a shut-down pool, returned
\* without closing the connection.
FnReturnNoClose(e, out) ==
    /\ epc[e] = "fn"
    /\ eres' = [eres EXCEPT ![e] = out]
    /\ IF ConnIsShutdown
       THEN /\ econn' = [econn EXCEPT ![e] = 0]
            /\ epc' = [epc EXCEPT ![e] = ExitPc(out)]
            /\ cwg' = cwg - 1
            /\ sema' = sema - 1
            /\ UNCHANGED closedConns
       ELSE /\ epc' = [epc EXCEPT ![e] = "putsend"]
            /\ UNCHANGED <<closedConns, econn, cwg, sema>>
    /\ UNCHANGED <<cpErr, idleCons, idleClosed, nconn, ectx, etask, cspc, ncalls>>
    /\ UNCHANGED <<wpVars, appVars, kataVars>>

\* fn(conn) returns or panics and the deferred cp.Put(conn) starts: on a
\* shut-down pool it closes the connection, and Execute leaves through Done
\* and the release.
FnReturn(e, out) ==
    /\ epc[e] = "fn"
    /\ eres' = [eres EXCEPT ![e] = out]
    /\ IF ConnIsShutdown
       THEN /\ closedConns' = closedConns \cup {econn[e]}
            /\ econn' = [econn EXCEPT ![e] = 0]
            /\ epc' = [epc EXCEPT ![e] = ExitPc(out)]
            /\ cwg' = cwg - 1
            /\ sema' = sema - 1
       ELSE /\ epc' = [epc EXCEPT ![e] = "putsend"]
            /\ UNCHANGED <<closedConns, econn, cwg, sema>>
    /\ UNCHANGED <<cpErr, idleCons, idleClosed, nconn, ectx, etask, cspc, ncalls>>
    /\ UNCHANGED <<wpVars, appVars, kataVars>>

\* ConnPool.Put: select { case cp.idleCons <- conn: default: conn.Close() },
\* then Execute leaves through Done and the release.  A send on a closed
\* channel panics.
ConnPutSend(e) ==
    /\ epc[e] = "putsend"
    /\ IF idleClosed
       THEN /\ epc' = [epc EXCEPT ![e] = "panicked"]
            /\ UNCHANGED <<idleCons, closedConns>>
       ELSE /\ epc' = [epc EXCEPT ![e] = ExitPc(eres[e])]
            /\ IF Len(idleCons) < PoolCap
               THEN /\ idleCons' = Append(idleCons, econn[e])
                    /\ UNCHANGED closedConns
               ELSE /\ closedConns' = closedConns \cup {econn[e]}
                    /\ UNCHANGED idleCons
    /\ econn' = [econn EXCEPT ![e] = 0]
    /\ cwg' = cwg - 1
    /\ sema' = sema - 1
    /\ UNCHANGED <<cpErr, idleClosed, nconn, eres, ectx, etask, cspc, ncalls>>
    /\ UNCHANGED <<wpVars, appVars, kataVars>>

\* ConnPool.Shutdown is called: if cp.IsShutdown() { return }.
ConnShutdown(s) ==
    /\ cspc[s] \in {"idle", "returnedEarly", "returnedDrained"}
    /\ cspc' = [cspc EXCEPT ![s] =
                  IF ConnIsShutdown THEN "returnedEarly" ELSE "cancel"]
    /\ UNCHANGED <<cpErr, sema, cwg, idleCons, idleClosed, nconn, closedConns,
                   epc, econn, eres, ectx, etask, ncalls>>
    /\ UNCHANGED <<wpVars, appVars, kataVars>>

\* ConnPool.Shutdown: cp.cancel(), a no-op on a cancelled context.
ConnShutdownCancel(s) ==
    /\ cspc[s] = "cancel"
    /\ cpErr' = IF cpErr = Nil THEN Canceled ELSE cpErr
    /\ cspc' = [cspc EXCEPT ![s] = "waiting"]
    /\ UNCHANGED <<sema, cwg, idleCons, idleClosed, nconn, closedConns, epc,
                   econn, eres, ectx, etask, ncalls>>
    /\ UNCHANGED <<wpVars, appVars, kataVars>>

\* Shutdown as it would be without cp.wg.Wait().
ConnShutdownNoWait(s) ==
    /\ cspc[s] = "waiting"
    /\ cspc' = [cspc EXCEPT ![s] = "closing"]
    /\ UNCHANGED <<cpErr, sema, cwg, idleCons, idleClosed, nconn, closedConns,
                   epc, econn, eres, ectx, etask, ncalls>>
    /\ UNCHANGED <<wpVars, appVars, kataVars>>

\* ConnPool.Shutdown: cp.wg.Wait() returns.
ConnShutdownWait(s) ==
    /\ cspc[s] = "waiting"
    /\ cwg = 0
    /\ cspc' = [cspc EXCEPT ![s] = "closing"]
    /\ UNCHANGED <<cpErr, sema, cwg, idleCons, idleClosed, nconn, closedConns,
                   epc, econn, eres, ectx, etask, ncalls>>
    /\ UNCHANGED <<wpVars, appVars, kataVars>>

\* ConnPool.Shutdown: close(cp.idleCons), then every connection left in the
\* channel is received and closed.  Closing a closed channel panics.
ConnShutdownClose(s) ==
    /\ cspc[s] = "closing"
    /\ IF idleClosed
       THEN /\ cspc' = [cspc EXCEPT ![s] = "panicked"]
            /\ UNCHANGED <<idleClosed, idleCons, closedConns>>
       ELSE /\ cspc' = [cspc EXCEPT ![s] = "returnedDrained"]
            /\ idleClosed' = TRUE
            /\ closedConns' = closedConns \cup {idleCons[i] : i \in DOMAIN idleCons}
            /\ idleCons' = << >>
    /\ UNCHANGED <<cpErr, sema, cwg, nconn, epc, econn, eres, ectx, etask, ncalls>>
    /\ UNCHANGED <<wpVars, appVars, kataVars>>

\* ------------------------------------------------------------ the cache

\* pooling as it would be if it started with the loop, without a first
\* refresh.
CacheStartNoJob ==
    /\ cachec = "spawned"
    /\ cachec' = "select"
    /\ UNCHANGED <<njobs, ticks, tickCh, cacheErr, appRest>>
    /\ UNCHANGED <<wpVars, connVars, kataVars>>

\* cache.pooling, started by NewCache in its own goroutine: c.refresh(),
\* then the ticker is created.
CacheStart ==
    /\ cachec = "spawned"
    /\ njobs' = njobs + 1
    /\ cachec' = "select"
    /\ UNCHANGED <<ticks, tickCh, cacheErr, appRest>>
    /\ UNCHANGED <<wpVars, connVars, kataVars>>

\* The interval has elapsed and the ticker delivers a tick on ticker.C, a
\* channel of capacity 1: the runtime's send goes through only when the
\* channel is empty.  The ticker exists from CacheStart to the return of
\* pooling (defer ticker.Stop()).
TickerFire ==
    /\ cachec = "select"
    /\ tickCh = 0
    /\ sfItem = "none"
    /\ sfFlight = "none"
    /\ sfChan = [c \in GetCallers |-> "none"]
    /\ loads = 0
    /\ gpc = [c \in GetCallers |-> "idle"]
    /\ gctx = [c \in GetCallers |-> Nil]
    /\ sfClean = TRUE
    /\ rpc = "new"
    /\ rmax = 0
    /\ rlog = << >>
    /\ rres = NilErr
    /\ rctx = NilErr
    /\ ticks < MaxTicks
    /\ ticks' = ticks + 1
    /\ tickCh' = 1
    /\ UNCHANGED <<cachec, njobs, cacheErr, appRest>>
    /\ UNCHANGED <<wpVars, connVars, kataVars>>

\* pooling, at its select: case <-ticker.C: c.refresh().
CacheTick ==
    /\ cachec = "select"
    /\ tickCh = 1
    /\ tickCh' = 0
    /\ njobs' = njobs + 1
    /\ UNCHANGED <<cachec, ticks, cacheErr, appRest>>
    /\ UNCHANGED <<wpVars, connVars, kataVars>>

\* pooling as it would be if its select had no case for c.ctx.Done().
CacheDoneMissing ==
    /\ cachec = "select"
    /\ cacheErr # Nil
    /\ UNCHANGED vars

\* pooling, at its select: case <-c.ctx.Done(): return.
CacheDone ==
    /\ cachec = "select"
    /\ cacheErr # Nil
    /\ cachec' = "exited"
    /\ UNCHANGED <<njobs, ticks, tickCh, cacheErr, appRest>>
    /\ UNCHANGED <<wpVars, connVars, kataVars>>

\* cache.Shutdown called by any holder of the cache: c.cancel().
CacheShutdown ==
    /\ ~cacheShut
    /\ cacheErr' = IF cacheErr = Nil THEN Canceled ELSE cacheErr
    /\ cacheShut' = TRUE
    /\ UNCHANGED <<appc, appi, httpc, cacheLoop>>
    /\ UNCHANGED <<wpVars, connVars, kataVars>>

\* A task is handed to the worker pool while the background goroutines are
\* watched.
TaskSubmit(tok, task) ==
    /\ Len(futs) < MaxTasks
    /\ Submit(tok, task)

\* ------------------------------------------- the single-flight TTL cache

\* Everything but the single-flight cache.
sfOthers == <<wpVars, connVars, appVars, rtVars>>

\* The context a caller passed to Get is cancelled.
GetCancel(c) ==
    /\ gpc[c] \in {"idle", "missed", "waiting"}
    /\ gctx[c] = Nil
    /\ gctx' = [gctx EXCEPT ![c] = Canceled]
    /\ UNCHANGED <<sfItem, sfFlight, sfChan, loads, gpc, sfClean>>
    /\ UNCHANGED sfOthers

\* The TTL of the cached item runs out: item.isExpired() turns true.
Expire ==
    /\ sfItem = "fresh"
    /\ sfItem' = "expired"
    /\ sfClean' = FALSE
    /\ UNCHANGED <<sfFlight, sfChan, loads, gpc, gctx>>
    /\ UNCHANGED sfOthers

\* Cache.Get: the read of c.c[key] under the read lock; an unexpired item is
\* returned.
GetCall(c) ==
    /\ gpc[c] = "idle"
    /\ gpc' = [gpc EXCEPT ![c] = IF sfItem = "fresh" THEN "gotValue" ELSE "missed"]
    /\ UNCHANGED <<sfItem, sfFlight, sfChan, loads, gctx, sfClean>>
    /\ UNCHANGED sfOthers

\* Cache.Get, entering its select: the channel operand c.g.DoChan(key, fn)
\* is evaluated.  singleflight joins the call in flight for the key if
\* there is one, and otherwise registers a new call and starts fn, hence
\* the loader, in a goroutine.
GetDoChan(c) ==
    /\ gpc[c] = "missed"
    /\ gpc' = [gpc EXCEPT ![c] = "waiting"]
    /\ sfChan' = [sfChan EXCEPT ![c] = "joined"]
    /\ IF sfFlight = "none"
       THEN /\ sfFlight' = "loading"
            /\ loads' = loads + 1
       ELSE UNCHANGED <<sfFlight, loads>>
    /\ UNCHANGED <<sfItem, gctx, sfClean>>
    /\ UNCHANGED sfOthers

\* Cache.Get, at its select: case <-ctx.Done(): the wrapped ctx.Err().
GetCtxDone(c) ==
    /\ gpc[c] = "waiting"
    /\ gctx[c] # Nil
    /\ gpc' = [gpc EXCEPT ![c] = "gotCtxErr"]
    /\ UNCHANGED <<sfItem, sfFlight, sfChan, loads, gctx, sfClean>>
    /\ UNCHANGED sfOthers

\* Cache.Get, at its select: case res := <-DoChan(...): the value, or the
\* wrapped error of the loader.
GetResult(c) ==
    /\ gpc[c] = "waiting"
    /\ sfChan[c] \in {"val", "err"}
    /\ gpc' = [gpc EXCEPT ![c] = IF sfChan[c] = "val" THEN "gotValue" ELSE "gotLoadErr"]
    /\ sfChan' = [sfChan EXCEPT ![c] = "none"]
    /\ UNCHANGED <<sfItem, sfFlight, loads, gctx, sfClean>>
    /\ UNCHANGED sfOthers

\* newLoaderFunc's function: the loader returns, and on a nil error the
\* item is stored under the write lock.
LoaderReturn(ok) ==
    /\ sfFlight = "loading"
    /\ IF ok
       THEN /\ sfItem' = "fresh"
            /\ sfFlight' = "loaded"
            /\ UNCHANGED sfClean
       ELSE /\ sfFlight' = "failed"
            /\ sfClean' = FALSE
            /\ UNCHANGED sfItem
    /\ UNCHANGED <<sfChan, loads, gpc, gctx>>
    /\ UNCHANGED sfOthers

\* singleflight, once fn has returned: the call is removed from the group
\* and its result is sent on the channel of every caller that joined it.
FlightFinish ==
    /\ sfFlight \in {"loaded", "failed"}
    /\ sfFlight' = "none"
    /\ sfChan' = [c \in GetCallers |->
                    IF sfChan[c] = "joined"
                    THEN (IF sfFlight = "loaded" THEN "val" ELSE "err")
                    ELSE sfChan[c]]
    /\ UNCHANGED <<sfItem, loads, gpc, gctx, sfClean>>
    /\ UNCHANGED sfOthers

\* ---------------------------------------------------------- the Retryer

\* Everything but the Retryer.
rtOthers == <<wpVars, connVars, appVars, sfVars>>

\* errors.Is(err, target), for a target that is a single error.
ErrorsIs(err, target) == target # {} /\ target \subseteq err

\* Retryer.shouldRetry: a net.Error whose Timeout() is true, or an error
\* that wraps ErrTransient.
shouldRetry(err) ==
    \/ ErrorsIs(err, ErrNetTimeout)
    \/ ErrorsIs(err, ErrTransient)

\* fmt.Errorf("%w after %d attempts: %w", ErrMaxRetryReached, n, lastErr):
\* an error that wraps both.
MaxRetryError(lastErr) == ErrMaxRetryReached \cup lastErr

\* NewRetryer(WithMaxAttempts(n)).
NewRetryer(n) ==
    /\ rpc = "new"
    /\ rmax' = n
    /\ rpc' = "ready"
    /\ UNCHANGED <<rlog, rres, rctx, rtimer, rwhen>>
    /\ UNCHANGED rtOthers

\* The context passed to Do is cancelled.  A Do that is blocked in the
\* select of backoff is woken with the case <-ctx.Done(): the runtime
\* settles the case of a blocked select when the first of its channels
\* becomes ready.
RetryCancel ==
    /\ rpc \in {"ready", "attempt", "backoff", "parked"}
    /\ rctx = NilErr
    /\ rctx' = ErrCtx
    /\ rpc' = IF rpc = "parked" THEN "cancelled" ELSE rpc
    /\ rwhen' = CASE rpc = "parked" -> "waiting"
                  [] rpc = "backoff" -> "entering"
                  [] OTHER -> "outside"
    /\ UNCHANGED <<rmax, rlog, rres, rtimer>>
    /\ UNCHANGED rtOthers

\* Retryer.Do is called.
RetryDo ==
    /\ rpc = "ready"
    /\ rpc' = "attempt"
    /\ UNCHANGED <<rmax, rlog, rres, rctx, rtimer, rwhen>>
    /\ UNCHANGED rtOthers

\* Do as it would be if it backed off after the last attempt as well and
\* went round once more.
RetryFnOneMore(out) ==
    /\ rpc = "attempt"
    /\ rlog' = Append(rlog, out)
    /\ IF rmax <= 0 \/ out = NilErr \/ ~shouldRetry(out)
       THEN rpc' = "returned" /\ rres' = out /\ UNCHANGED rtimer
       ELSE IF Len(rlog) + 1 <= rmax
       THEN rpc' = "backoff" /\ rtimer' = "armed" /\ UNCHANGED rres
       ELSE rpc' = "returned" /\ rres' = MaxRetryError(out)
                                /\ UNCHANGED rtimer
    /\ UNCHANGED <<rmax, rctx, rwhen>>
    /\ UNCHANGED rtOthers

\* Do: fn(ctx) returns out.  With maxAttempts <= 0 that is what Do returns.
\* Otherwise nil and an error that is not to be retried are returned, an
\* error to be retried leads to the backoff (the timer is created or reset
\* with the delay) while attempts are left and to the wrapped
\* ErrMaxRetryReached after the last one.
RetryFn(out) ==
    /\ rpc = "attempt"
    /\ rlog' = Append(rlog, out)
    /\ IF rmax <= 0 \/ out = NilErr \/ ~shouldRetry(out)
       THEN rpc' = "returned" /\ rres' = out /\ UNCHANGED rtimer
       ELSE IF Len(rlog) + 1 < rmax
       THEN rpc' = "backoff" /\ rtimer' = "armed" /\ UNCHANGED rres
       ELSE rpc' = "returned" /\ rres' = MaxRetryError(out)
                                /\ UNCHANGED rtimer
    /\ UNCHANGED <<rmax, rctx, rwhen>>
    /\ UNCHANGED rtOthers

\* The delay of the backoff has passed: the timer sends on t.C.  A Do that
\* is blocked in the select of backoff is woken with the case <-t.C.
TimerFire ==
    /\ rpc \in {"backoff", "parked"}
    /\ rtimer = "armed"
    /\ rtimer' = IF rpc = "parked" THEN "none" ELSE "fired"
    /\ rpc' = IF rpc = "parked" THEN "expired" ELSE rpc
    /\ UNCHANGED <<rmax, rlog, rres, rctx, rwhen>>
    /\ UNCHANGED rtOthers

\* Retryer.backoff reaches its select: one of the ready cases is taken, and
\* with none ready Do blocks.
BackoffSelect ==
    /\ rpc = "backoff"
    /\ \/ rctx # NilErr /\ rpc' = "cancelled" /\ UNCHANGED rtimer
       \/ rtimer = "fired" /\ rpc' = "expired" /\ rtimer' = "none"
       \/ rctx = NilErr /\ rtimer = "armed" /\ rpc' = "parked"
                        /\ UNCHANGED rtimer
    /\ UNCHANGED <<rmax, rlog, rres, rctx, rwhen>>
    /\ UNCHANGED rtOthers

\* Retryer.backoff, case <-t.C: return t, nil, and Do goes round again.
BackoffTimer ==
    /\ rpc = "expired"
    /\ rpc' = "attempt"
    /\ UNCHANGED <<rmax, rlog, rres, rctx, rtimer, rwhen>>
    /\ UNCHANGED rtOthers

\* Retryer.backoff as it would be if its case <-ctx.Done() returned no
\* error: Do goes round again.
BackoffCancelledGoesOn ==
    /\ rpc = "cancelled"
    /\ rpc' = "attempt"
    /\ UNCHANGED <<rmax, rlog, rres, rctx, rtimer, rwhen>>
    /\ UNCHANGED rtOthers

\* Retryer.backoff, case <-ctx.Done(): return t, ctx.Err(), which Do returns.
BackoffCancelled ==
    /\ rpc = "cancelled"
    /\ rpc' = "returned"
    /\ rres' = rctx
    /\ UNCHANGED <<rmax, rlog, rctx, rtimer, rwhen>>
    /\ UNCHANGED rtOthers

\* ----------------------------------------------------- the Application

\* The requests whose handler has submitted its task and has not returned.
Submitted(t) == \E i \in DOMAIN futs : futs[i].tok = t
ActiveHandlers == {t \in ReqTokens : Submitted(t) /\ tokErr[t] = Nil}

\* Controller.handlerRequest on a connection the listener accepted:
\* h.pool.Submit(r.Context(), task), the task being the call of db.Query.
HandlerSubmit(t) ==
    /\ httpc = "listening"
    /\ ~Submitted(t)
    /\ tokErr[t] = Nil
    /\ Submit(t, "query")

\* The handler's f.Get() has returned and the handler returns, or the client
\* goes away: net/http cancels the request context.  A future that is not
\* done keeps its handler in Get until the client goes.
RequestDone(t) ==
    /\ t \in ActiveHandlers
    /\ CancelRequest(t)

\* The task of a request, started by worker w: h.db.Query(ctx), which is
\* pool.Execute(ctx, fn) with the future's context.
QueryCall(w) ==
    /\ wpc[w] = "running"
    /\ futs[wfut[w]].task = "query"
    /\ etask[w] # wfut[w]
    /\ ExecuteCall(w, wfut[w])

\* What the task of a request does once Execute has left with r: "pong" on
\* nil, the error otherwise; a panic of Execute goes through the task.
QueryTask(pc, r) ==
    IF pc = "panicked" THEN [panics |-> TRUE, result |-> Zero, err |-> Nil]
    ELSE IF r = Nil THEN [panics |-> FALSE, result |-> "pong", err |-> Nil]
    ELSE [panics |-> FALSE, result |-> Zero, err |-> r]

\* Execute has left: the task returns and Run stores the outcome, through
\* invoke's recover when the task panicked.
QueryReturn(w) ==
    /\ wpc[w] = "running"
    /\ futs[wfut[w]].task = "query"
    /\ etask[w] = wfut[w]
    /\ epc[w] \in {"returned", "panicked"}
    /\ LET b == QueryTask(epc[w], eres[w])
           cbs == IF b.panics THEN << <<Zero, TaskPanicked>>, <<Zero, Nil>> >>
                  ELSE << <<b.result, b.err>> >>
       IN futs' = [futs EXCEPT ![wfut[w]].cause = ApplyCallbacks(@, cbs)]
    /\ wpc' = [wpc EXCEPT ![w] = "loop"]
    /\ wfut' = [wfut EXCEPT ![w] = 0]
    /\ UNCHANGED <<tokErr, poolCause, wgCount, taskQueue, spc, running>>
    /\ UNCHANGED <<connVars, appVars, kataVars>>

\* Application.Start: <-stop receives the signal.
AppSignal ==
    /\ appc = "serving"
    /\ appc' = "signalled"
    /\ UNCHANGED <<appi, httpc, cacheErr, cacheShut>>
    /\ UNCHANGED <<wpVars, connVars, cacheLoop, kataVars>>

\* Application.Start: app.cancel().
AppCancel ==
    /\ appc = "signalled"
    /\ CancelRoot

\* Application.Shutdown is entered: by Start once it has cancelled the root
\* context, or by a caller of the exported method on a serving application.
AppShutdown ==
    /\ \/ appc = "signalled" /\ tokErr["root"] # Nil
       \/ appc = "serving"
    /\ appc' = "shutdown"
    /\ UNCHANGED <<appi, httpc, cacheErr, cacheShut>>
    /\ UNCHANGED <<wpVars, connVars, cacheLoop, kataVars>>

\* The step Application.Shutdown is at.
AppAt(step) ==
    /\ appc = "shutdown"
    /\ appi \in DOMAIN ShutdownSteps
    /\ ShutdownSteps[appi] = step

\* app.httpServer.Shutdown(ctx): http.Server.Shutdown closes the listeners.
HttpShutdown ==
    /\ AppAt("http")
    /\ httpc = "listening"
    /\ httpc' = "draining"
    /\ UNCHANGED <<appc, appi, cacheErr, cacheShut>>
    /\ UNCHANGED <<wpVars, connVars, cacheLoop, kataVars>>

\* http.Server.Shutdown returns: no handler is active, or the deadline of
\* ctx has passed (HttpServer.Shutdown logs the error and returns).
HttpShutdownReturn ==
    /\ AppAt("http")
    /\ httpc = "draining"
    /\ httpc' = IF ActiveHandlers = {} THEN "closed" ELSE "timedOut"
    /\ appi' = appi + 1
    /\ UNCHANGED <<appc, cacheErr, cacheShut>>
    /\ UNCHANGED <<wpVars, connVars, cacheLoop, kataVars>>

\* app.pool.Shutdown() is called.
AppPoolShutdown ==
    /\ AppAt("pool")
    /\ spc["s1"] = "idle"
    /\ Shutdown("s1")

\* app.pool.Shutdown() has returned.
AppPoolReturn ==
    /\ AppAt("pool")
    /\ spc["s1"] \in {"returnedEarly", "returnedWaited"}
    /\ appi' = appi + 1
    /\ UNCHANGED <<appc, httpc, cacheErr, cacheShut>>
    /\ UNCHANGED <<wpVars, connVars, cacheLoop, kataVars>>

\* app.cache.Shutdown(): c.cancel(), a no-op on a cancelled context.
AppCacheShutdown ==
    /\ AppAt("cache")
    /\ cacheErr' = IF cacheErr = Nil THEN Canceled ELSE cacheErr
    /\ cacheShut' = TRUE
    /\ appi' = appi + 1
    /\ UNCHANGED <<appc, httpc>>
    /\ UNCHANGED <<wpVars, connVars, cacheLoop, kataVars>>

\* app.db.Shutdown(): database.Shutdown calls the ConnPool's.
AppDbShutdown ==
    /\ AppAt("db")
    /\ cspc["d1"] = "idle"
    /\ ConnShutdown("d1")

\* app.db.Shutdown() has returned.
AppDbReturn ==
    /\ AppAt("db")
    /\ cspc["d1"] \in {"returnedEarly", "returnedDrained"}
    /\ appi' = appi + 1
    /\ UNCHANGED <<appc, httpc, cacheErr, cacheShut>>
    /\ UNCHANGED <<wpVars, connVars, cacheLoop, kataVars>>

\* Application.Shutdown returns after its last step.
AppShutdownReturn ==
    /\ appc = "shutdown"
    /\ appi = Len(ShutdownSteps) + 1
    /\ appc' = "done"
    /\ UNCHANGED <<appi, httpc, cacheErr, cacheShut>>
    /\ UNCHANGED <<wpVars, connVars, cacheLoop, kataVars>>

\* The worker pool: request handlers submit, workers run, Shutdown is called.
Next ==
    \/ CancelRoot
    \/ CancelReq
    \/ \E tok \in Tokens, task \in PoolTasks : Submit(tok, task)
    \/ \E w \in Workers : WorkerAdd(w)
    \/ \E w \in Workers : WorkerCheck(w)
    \/ \E w \in Workers : WorkerTake(w)
    \/ \E w \in Workers : WorkerDone(w)
    \/ \E w \in Workers : WorkerFinish(w)
    \/ \E s \in ShutdownCallers : Shutdown(s)
    \/ \E s \in ShutdownCallers : ShutdownWait(s)

Spec == Init /\ [][Next]_vars

\* A Future on its own: any holder may run it, cancel it, or cancel the
\* token it was built from.
NextFuture ==
    \/ CancelRoot
    \/ CancelReq
    \/ \E tok \in Tokens, task \in UserTasks : Create(tok, task)
    \/ \E id \in 1..MaxSolo : Cancel(id)
    \/ \E g \in Runners, id \in 1..MaxSolo : Run(g, id)
    \/ \E g \in Runners : RunReturn(g)

SpecFuture == Init /\ [][NextFuture]_vars

\* The ConnPool on its own: any goroutine may call Execute with its own token
\* and any fn, the factory may fail, the root or the caller's token may be
\* cancelled and Shutdown may be called at any time.
NextConn ==
    \/ CancelRoot
    \/ \E e \in ExecCallers : CancelCaller(e)
    \/ \E e \in ExecCallers : ExecuteCall(e, 0)
    \/ \E e \in ExecCallers : ExecuteGate(e)
    \/ \E e \in ExecCallers : ExecuteAdd(e)
    \/ \E e \in ExecCallers : ConnGetSelect(e)
    \/ \E e \in ExecCallers, ok \in BOOLEAN : FactoryReturn(e, ok)
    \/ \E e \in ExecCallers, out \in FnOutcomes : FnReturn(e, out)
    \/ \E e \in ExecCallers : ConnPutSend(e)
    \/ \E s \in ConnShutdownCallers : ConnShutdown(s)
    \/ \E s \in ConnShutdownCallers : ConnShutdownCancel(s)
    \/ \E s \in ConnShutdownCallers : ConnShutdownWait(s)
    \/ \E s \in ConnShutdownCallers : ConnShutdownClose(s)

SpecConn == Init /\ [][NextConn]_vars

\* The Application: requests arrive while the server listens, workers run
\* their tasks against the ConnPool (whose factory may fail), the signal
\* arrives or Shutdown is called.
NextApp ==
    \/ \E t \in ReqTokens : HandlerSubmit(t)
    \/ \E t \in ReqTokens : RequestDone(t)
    \/ \E w \in Workers : WorkerAdd(w)
    \/ \E w \in Workers : WorkerCheck(w)
    \/ \E w \in Workers : WorkerTake(w)
    \/ \E w \in Workers : WorkerDone(w)
    \/ \E w \in Workers : QueryCall(w)
    \/ \E w \in Workers : ExecuteGate(w)
    \/ \E w \in Workers : ExecuteAdd(w)
    \/ \E w \in Workers : ConnGetSelect(w)
    \/ \E w \in Workers, ok \in BOOLEAN : FactoryReturn(w, ok)
    \/ \E w \in Workers : FnReturn(w, Nil)
    \/ \E w \in Workers : ConnPutSend(w)
    \/ \E w \in Workers : QueryReturn(w)
    \/ AppSignal
    \/ AppCancel
    \/ AppShutdown
    \/ HttpShutdown
    \/ HttpShutdownReturn
    \/ AppPoolShutdown
    \/ ShutdownWait("s1")
    \/ AppPoolReturn
    \/ AppCacheShutdown
    \/ AppDbShutdown
    \/ ConnShutdownCancel("d1")
    \/ ConnShutdownWait("d1")
    \/ ConnShutdownClose("d1")
    \/ AppDbReturn
    \/ AppShutdownReturn

SpecApp == Init /\ [][NextApp]_vars

\* The background goroutines InitApplication starts: the workers of the
\* pool, which are handed tasks, and the cache's pooling loop; the root
\* context may be cancelled and cache.Shutdown called at any time.
NextLeak ==
    \/ CancelRoot
    \/ \E tok \in Tokens, task \in PoolTasks : TaskSubmit(tok, task)
    \/ \E w \in Workers : WorkerAdd(w)
    \/ \E w \in Workers : WorkerCheck(w)
    \/ \E w \in Workers : WorkerTake(w)
    \/ \E w \in Workers : WorkerDone(w)
    \/ \E w \in Workers : WorkerFinish(w)
    \/ CacheStart
    \/ TickerFire
    \/ CacheTick
    \/ CacheDone
    \/ CacheShutdown

SpecLeak == Init /\ [][NextLeak]_vars

\* ... under the scheduling the Go runtime gives them: a runnable goroutine
\* eventually runs and a task that was started eventually returns.  Nothing
\* obliges the ticker to fire, a caller to submit or anyone to cancel.
FairSpecLeak ==
    /\ SpecLeak
    /\ \A w \in Workers :
        /\ WF_vars(WorkerAdd(w))
        /\ WF_vars(WorkerCheck(w))
        /\ WF_vars(WorkerTake(w))
        /\ WF_vars(WorkerDone(w))
        /\ WF_vars(WorkerFinish(w))
    /\ WF_vars(CacheStart)
    /\ WF_vars(CacheTick)
    /\ WF_vars(CacheDone)

\* The single-flight cache: every caller calls Get once on the same key, at
\* any time; a caller's context may be cancelled, the loader may fail, the
\* cached item may expire.
NextFlight ==
    \/ \E c \in GetCallers : GetCancel(c)
    \/ Expire
    \/ \E c \in GetCallers : GetCall(c)
    \/ \E c \in GetCallers : GetDoChan(c)
    \/ \E c \in GetCallers : GetCtxDone(c)
    \/ \E c \in GetCallers : GetResult(c)
    \/ \E ok \in BOOLEAN : LoaderReturn(ok)
    \/ FlightFinish

SpecFlight == Init /\ [][NextFlight]_vars

\* The Retryer: built with any maxAttempts, Do called once with an fn that
\* returns anything at each call, and a context that may be cancelled.
NextRetry ==
    \/ \E n \in 0..MaxAttempts : NewRetryer(n)
    \/ RetryCancel
    \/ RetryDo
    \/ \E out \in FnErrors : RetryFn(out)
    \/ TimerFire
    \/ BackoffSelect
    \/ BackoffTimer
    \/ BackoffCancelled

SpecRetry == Init /\ [][NextRetry]_vars

\* The worker pool under the scheduling the Go runtime gives it: a runnable
\* goroutine eventually runs, a task that was started eventually returns, a
\* Wait whose counter is zero eventually returns.  Nothing obliges a caller
\* to submit, to cancel a token or to call Shutdown.
FairSpec ==
    /\ Spec
    /\ \A w \in Workers :
        /\ WF_vars(WorkerAdd(w))
        /\ WF_vars(WorkerCheck(w))
        /\ WF_vars(WorkerTake(w))
        /\ WF_vars(WorkerDone(w))
        /\ WF_vars(WorkerFinish(w))
    /\ \A s \in ShutdownCallers : WF_vars(ShutdownWait(s))

\* ------------------------------------------------------------- claims

Accepted(f) == f.task \in PoolTasks
Returned == {"returnedEarly", "returnedWaited"}

\* C1: the stored (result, error) pair of a Future is written once: once a
\* Future is done, no Run, Cancel, task return or token cancellation changes
\* its cause, so every Get returns the same pair.
C1_FirstCompletionWins ==
    [][\A i \in DOMAIN futs :
          IsDone(futs[i]) =>
              /\ futs'[i].cause = futs[i].cause
              /\ Get(futs'[i]) = Get(futs[i])]_vars

\* C1 witness: Cancel completed the future while a Run was inside the task,
\* and the task has since returned without replacing the pair.
C1_Witness ==
    /\ Len(futs) >= 1
    /\ futs[1].task = "ok"
    /\ futs[1].runs >= 1
    /\ \A g \in Runners : running[g] = 0
    /\ IsDone(futs[1])
    /\ Get(futs[1]) = <<Zero, Canceled>>
    /\ futs[1].cause.kind = "result"

\* C2: every Future returned by Submit is eventually done.
C2_EveryFutureCompletes ==
    \A i \in 1..MaxFutures :
        [](i \in DOMAIN futs => <>(i \in DOMAIN futs /\ IsDone(futs[i])))

\* C3: a Future returned by Submit on a shut-down pool is already completed
\* with the "worker pool is shutdown" error.
C3_ShutdownRejectionCompleted ==
    \A i \in DOMAIN futs :
        futs[i].task = "stubShutdown" =>
            IsDone(futs[i]) /\ Get(futs[i]) = <<Zero, ErrWorkerPoolShutdown>>

\* C4: a Future returned by Submit on a full queue is already completed with
\* the "task queue is full" error.
C4_QueueFullRejectionCompleted ==
    \A i \in DOMAIN futs :
        futs[i].task = "stubFull" =>
            IsDone(futs[i]) /\ Get(futs[i]) = <<Zero, ErrTaskQueueFull>>

\* C5: with all N workers inside a task and 2N futures queued, the next
\* Submit adds nothing to the queue and returns a Future that Get reports as
\* failed with QueueFull.
C5_BackpressureAtCapacity ==
    [][(/\ \A w \in Workers : wpc[w] = "running"
        /\ ~IsShutdown(poolCause)
        /\ Len(taskQueue) = QueueCap
        /\ Len(futs') = Len(futs) + 1)
       => (/\ taskQueue' = taskQueue
           /\ IsDone(futs'[Len(futs')])
           /\ Get(futs'[Len(futs')]) = <<Zero, ErrTaskQueueFull>>)]_vars

\* C6: once a Shutdown that cancelled the pool token has returned and the
\* workers have exited, every Future the pool had accepted is done.
C6_ShutdownCompletesOutstanding ==
    (/\ \E s \in ShutdownCallers : spc[s] = "returnedWaited"
     /\ \A w \in Workers : wpc[w] = "exited")
        => \A i \in DOMAIN futs : Accepted(futs[i]) => IsDone(futs[i])

\* C7: the step that cancels the root token leaves every Future done, and
\* Get on each Future that was outstanding returns the Cancelled error.
C7_RootCancelCompletesGets ==
    [][(tokErr["root"] = Nil /\ tokErr'["root"] # Nil)
       => \A i \in DOMAIN futs :
            /\ IsDone(futs'[i])
            /\ ~IsDone(futs[i]) => Get(futs'[i]) = <<Zero, Canceled>>]_vars

\* C8: when a Shutdown that cancelled the pool token has returned, every
\* worker has exited.
C8_ShutdownWaitsForWorkers ==
    \A s \in ShutdownCallers :
        spc[s] = "returnedWaited" => \A w \in Workers : wpc[w] = "exited"

\* C9: a Shutdown call made after some Shutdown call has returned returns
\* in the same step (it never reaches the Wait) and changes nothing of the
\* pool: token, wait group, queue, futures, workers.
C9_ShutdownIdempotent ==
    [][\A s \in ShutdownCallers :
          (/\ \E t \in ShutdownCallers : spc[t] \in Returned
           /\ spc[s] \in Returned \cup {"idle"}
           /\ spc'[s] # spc[s])
          => /\ spc'[s] = "returnedEarly"
             /\ UNCHANGED <<poolCause, wgCount, taskQueue, futs, wpc, wfut>>]_vars

\* C9 witness: the root token is live, so the pool was cancelled by one of
\* the two callers, which waited, returned and called Shutdown again; both
\* callers have now returned through the early return.
C9_Witness ==
    /\ tokErr["root"] = Nil
    /\ \A s \in ShutdownCallers : spc[s] = "returnedEarly"

\* C10: a worker that finishes a panicking task goes back to its loop, and
\* if the Future was still pending its Get now returns the TaskFault error
\* with the panic text; no worker is ever crashed.
C10_PanicBecomesTaskFault ==
    [][\A w \in Workers :
          (wpc[w] = "running" /\ wpc'[w] # "running"
             /\ futs[wfut[w]].task = "panic")
          => /\ wpc'[w] = "loop"
             /\ ~IsDone(futs[wfut[w]]) =>
                    Get(futs'[wfut[w]]) = <<Zero, TaskPanicked>>]_vars

\* C10 witness: a panicking task's Future carries the TaskFault error and a
\* task submitted after it was accepted, run and completed with its result.
C10_Witness ==
    \E i, j \in DOMAIN futs :
        /\ i < j
        /\ futs[i].task = "panic"
        /\ IsDone(futs[i])
        /\ Get(futs[i]) = <<Zero, TaskPanicked>>
        /\ futs[j].task = "ok"
        /\ futs[j].runs = 1
        /\ IsDone(futs[j])
        /\ Get(futs[j]) = <<"r1", Nil>>

\* Callers that hold an admission slot, callers inside fn, and callers whose
\* Execute call has started and not yet left.
Holders == {e \in ExecCallers : epc[e] \in {"admitted", "getsel", "factory", "fn", "putsend"}}
InFn == {e \in ExecCallers : epc[e] = "fn"}
InProgress == {e \in ExecCallers : epc[e] \notin {"idle", "returned", "panicked"}}
IdleSet == {idleCons[i] : i \in DOMAIN idleCons}
HeldLive == {e \in ExecCallers : econn[e] # 0 /\ econn[e] \notin closedConns}

\* C11: at most PoolCap callers hold a slot, hence at most PoolCap are inside
\* fn; while PoolCap slots are held no caller passes the gate, and a step
\* frees at most one slot and admits at most one caller.
C11_AdmissionBound ==
    [][/\ Cardinality(Holders') <= PoolCap
       /\ Cardinality(InFn') <= PoolCap
       /\ sema = PoolCap =>
            \A e \in ExecCallers : epc[e] = "gate" => epc'[e] # "admitted"
       /\ sema' >= sema - 1
       /\ Cardinality({e \in ExecCallers :
                         epc[e] = "gate" /\ epc'[e] = "admitted"}) <= 1]_vars

\* C11 witness: PoolCap callers are inside fn and one more, whose token is
\* live, stands at the gate.
C11_Witness ==
    /\ Cardinality(InFn) = PoolCap
    /\ \E e \in ExecCallers : epc[e] = "gate" /\ CallerErr(e) = Nil

\* C12: the live connections held by callers plus the idle connections are
\* at most PoolCap.
C12_ResourceBound ==
    Cardinality(HeldLive) + Len(idleCons) <= PoolCap

\* C12 witness: the bound is met with a caller inside fn on a connection it
\* took from the idle cache (more calls have been admitted than connections
\* dialled).
C12_Witness ==
    /\ Cardinality(HeldLive) + Len(idleCons) = PoolCap
    /\ InFn # {}
    /\ nconn = 1
    /\ closedConns = {}
    /\ \E e \in ExecCallers : epc[e] = "returned" /\ eres[e] = Nil

\* C13: the slots held are exactly those of the calls between admission and
\* exit: a caller that has (or is dialling) a connection holds a slot, every
\* exit gives its slot back once, and with no call in progress none is held.
C13_SlotAccounting ==
    /\ sema = Cardinality(Holders)
    /\ \A e \in ExecCallers :
          (econn[e] # 0 \/ epc[e] \in {"factory", "fn", "putsend"}) => e \in Holders
    /\ InProgress = {} => sema = 0

\* C13 witness: calls have left through a factory error, a panic of fn and
\* a cancellation, and no slot is held.
C13_Witness ==
    /\ InProgress = {}
    /\ sema = 0
    /\ \E e \in ExecCallers : epc[e] = "returned" /\ eres[e] = ErrFactory
    /\ \E e \in ExecCallers : epc[e] = "panicked" /\ eres[e] = PanicFn
    /\ \E e \in ExecCallers : epc[e] = "returned" /\ eres[e] = Canceled

\* C14 as claimed: a call in which fn panicked has returned to its caller.
C14_PanicReturnedAsError ==
    \A e \in ExecCallers :
        (e \notin InProgress /\ eres[e] = PanicFn) => epc[e] = "returned"

\* C14 as amended: when fn has panicked, Execute leaves by passing the panic
\* on to its caller, with its slot and its wait-group entry released and the
\* connection put into the idle cache or closed.
C14_PanicPropagatesAfterCleanup ==
    [][\A e \in ExecCallers :
          (e \in InProgress /\ e \notin InProgress' /\ eres'[e] = PanicFn)
          => /\ epc'[e] = "panicked"
             /\ sema' = sema - 1
             /\ cwg' = cwg - 1
             /\ econn[e] \in IdleSet' \cup closedConns']_vars

\* C14 witness: a call has left with the panic of fn and no slot is held.
C14_Witness ==
    /\ \E e \in ExecCallers : epc[e] = "panicked" /\ eres[e] = PanicFn
    /\ sema = 0
    /\ cwg = 0

\* C15: when a Shutdown that cancelled the pool token has returned, no
\* caller holds an admission slot, the idle cache is empty and every
\* connection the factory produced has been closed.
C15_ShutdownQuiesces ==
    (\E s \in ConnShutdownCallers : cspc[s] = "returnedDrained")
        => /\ Holders = {}
           /\ idleCons = << >>
           /\ closedConns = 1..nconn

\* C16: no call of Shutdown faults.
C16_ShutdownThreadSafe ==
    \A s \in ConnShutdownCallers : cspc[s] # "panicked"

\* C17: a caller standing at the gate can leave it with a cancellation error
\* whenever its own token or the pool's token is cancelled.
C17_GateObservesCancellation ==
    \A e \in ExecCallers :
        (epc[e] = "gate" /\ (CallerErr(e) # Nil \/ ConnIsShutdown))
            => ENABLED ExecuteGateCancel(e)

\* C18: Application.Shutdown goes through its steps in strict order: the
\* worker pool's Shutdown is called only after the http server's Shutdown
\* has returned, the cache is stopped only after the worker pool's Shutdown
\* has returned, and the ConnPool's Shutdown is called only after the cache
\* has been stopped and the worker pool's Shutdown has returned.
C18_ShutdownOrder ==
    /\ httpc \in {"listening", "draining"} =>
          spc["s1"] = "idle" /\ ~cacheShut /\ cspc["d1"] = "idle"
    /\ spc["s1"] \notin Returned => ~cacheShut /\ cspc["d1"] = "idle"
    /\ ~cacheShut => cspc["d1"] = "idle"

\* C18 witness: a Shutdown that found every component live has returned:
\* the listener closed with no handler left, the worker pool's Shutdown
\* waited for the workers, the cache was stopped and the ConnPool drained.
C18_Witness ==
    /\ appc = "done"
    /\ httpc = "closed"
    /\ spc["s1"] = "returnedWaited"
    /\ cacheShut
    /\ cspc["d1"] = "returnedDrained"
    /\ nconn >= 1

\* C19: in the shutdown Start runs after cancelling the root context, no
\* worker is still executing a task when the ConnPool's Shutdown begins or
\* when Application.Shutdown has returned.
C19_WorkersDrainedBeforeDb ==
    (tokErr["root"] # Nil /\ (cspc["d1"] # "idle" \/ appc = "done")) =>
        \A w \in Workers : wpc[w] # "running"

\* C20: once the shutdown Start runs after cancelling the root context has
\* returned, with no worker inside a task, the ConnPool's idle channel is
\* empty and every connection the factory produced has been closed.
C20_PoolEmptyAfterShutdown ==
    (tokErr["root"] # Nil /\ appc = "done"
        /\ \A w \in Workers : wpc[w] # "running") =>
        /\ idleCons = << >>
        /\ closedConns = 1..nconn

\* What Application.Shutdown hands to its caller: the method has no result,
\* and HttpServer.Shutdown logs the error of http.Server.Shutdown and drops
\* it.
ShutdownReport == Nil

\* Application.Shutdown is inside a Wait that has no deadline, waiting for a
\* worker that is inside a task, which returns when the task chooses to.
ShutdownBlocked ==
    /\ AppAt("pool")
    /\ spc["s1"] = "waiting"
    /\ \E w \in Workers : wpc[w] = "running"

\* C21: once the deadline has expired on a step of Application.Shutdown,
\* Shutdown is not held up by any later step, and when it has returned it
\* has reported a timeout to its caller.
C21_DeadlineBoundsShutdown ==
    httpc = "timedOut" =>
        /\ appc = "shutdown" => ~ShutdownBlocked
        /\ appc = "done" => ShutdownReport # Nil

\* C23: the cancellation of the token a caller built the Future from, before
\* the Future has completed, leaves the Future as it was: not done, its task
\* still to run, its result still to be stored.
C23_CallerCancelLeavesFuture ==
    [][\A i \in DOMAIN futs :
          (tokErr[futs[i].tok] = Nil /\ tokErr'[futs[i].tok] # Nil
              /\ ~IsDone(futs[i]))
          => futs'[i] = futs[i]]_vars

\* C24: Cancel on a Future that is not done completes it so that Get
\* returns the zero result and context.Canceled; Cancel on a done Future
\* changes nothing.
C24_CancelCompletesOrNoOp ==
    [][\A id \in DOMAIN futs :
          Cancel(id) =>
              IF IsDone(futs[id])
              THEN futs' = futs
              ELSE IsDone(futs'[id]) /\ Get(futs'[id]) = <<Zero, Canceled>>]_vars

\* C24 witness: Cancel completed a future no Run had touched, and Cancel can
\* be called on it again.
C24_Witness ==
    /\ Len(futs) >= 1
    /\ futs[1].runs = 0
    /\ futs[1].cause = futureResult(Zero, Canceled)
    /\ ENABLED Cancel(1)

\* C25: Run on a Future that is already done, whether by an earlier Run, by
\* Cancel or by the cancellation of its parent token, does not start the
\* task and changes nothing.
C25_RunIdempotent ==
    [][\A g \in Runners, id \in DOMAIN futs :
          (Run(g, id) /\ IsDone(futs[id])) =>
              /\ futs' = futs
              /\ running' = running]_vars

\* C25 witness: a Run has completed the future with its task's pair and
\* another Run can be called on it.
C25_Witness ==
    /\ Len(futs) >= 1
    /\ futs[1].runs = 1
    /\ futs[1].cause = futureResult("r1", ErrTask)
    /\ \A g \in Runners : running[g] = 0
    /\ ENABLED Run("g1", 1)

\* C22: once the root context is cancelled, every worker of the pool and
\* the cache's pooling loop eventually return, given that every task that
\* was started returns.
C22_NoGoroutineLeak ==
    (tokErr["root"] # Nil) ~>
        (/\ \A w \in Workers : wpc[w] = "exited"
         /\ cachec = "exited")

\* C22 witness: the root was cancelled while a worker had run a task and the
\* loop had refreshed, and every background goroutine has returned.
C22_Witness ==
    /\ tokErr["root"] # Nil
    /\ \A w \in Workers : wpc[w] = "exited"
    /\ cachec = "exited"
    /\ ~cacheShut
    /\ njobs >= 2
    /\ \E i \in DOMAIN futs : futs[i].runs >= 1

\* C26: once the cache's context is cancelled, no refresh is started: not
\* the first one of a loop that had not started yet, and not one for a tick
\* that is ready together with the cancellation.
C26_NoJobAfterCancel ==
    [][cacheErr # Nil => njobs' = njobs]_vars

\* C27: while its context is not cancelled, a pooling loop that has not
\* started has refreshed nothing and has no ticker, and a loop at its select
\* has refreshed once at its start and once for every tick delivered and
\* received.
C27_OncePlusOncePerTick ==
    cacheErr = Nil =>
        /\ cachec = "spawned" => njobs = 0 /\ ticks = 0 /\ tickCh = 0
        /\ cachec = "select" => njobs = 1 + ticks - tickCh

\* C27 witness: a live loop has received every tick of the run and has
\* refreshed once more than that.
C27_Witness ==
    /\ cacheErr = Nil
    /\ cachec = "select"
    /\ ticks = MaxTicks
    /\ tickCh = 0
    /\ sfItem = "none"
    /\ sfFlight = "none"
    /\ sfChan = [c \in GetCallers |-> "none"]
    /\ loads = 0
    /\ gpc = [c \in GetCallers |-> "idle"]
    /\ gctx = [c \in GetCallers |-> Nil]
    /\ sfClean = TRUE
    /\ rpc = "new"
    /\ rmax = 0
    /\ rlog = << >>
    /\ rres = NilErr
    /\ rctx = NilErr
    /\ njobs = 1 + MaxTicks

\* A future that Submit enqueued and a worker has received since.
Dequeued(i) ==
    /\ Accepted(futs[i])
    /\ \A k \in DOMAIN taskQueue : taskQueue[k] # i

C29_SingleFlight ==
    sfClean =>
        /\ loads <= 1
        /\ \A c \in GetCallers :
              /\ gpc[c] # "gotLoadErr"
              /\ gpc[c] = "gotCtxErr" => gctx[c] # Nil
              /\ gpc[c] = "gotValue" => loads = 1

\* C30: when Do has returned, with maxAttempts > 0, fn was called at most
\* maxAttempts times and every call but the last returned an error to be
\* retried; if the last call returned nil Do returned nil; if it returned an
\* error that is not to be retried Do returned that error; and if it was the
\* maxAttempts-th call and returned an error to be retried, Do returned an
\* error that wraps ErrMaxRetryReached and that error.
C30_RetryerDo ==
    (rpc = "returned" /\ rmax > 0) =>
        LET n == Len(rlog) IN
        /\ n >= 1
        /\ n <= rmax
        /\ \A k \in 1..(n - 1) : shouldRetry(rlog[k])
        /\ rlog[n] = NilErr => rres = NilErr
        /\ (rlog[n] # NilErr /\ ~shouldRetry(rlog[n])) => rres = rlog[n]
        /\ (shouldRetry(rlog[n]) /\ n = rmax) =>
              /\ ErrorsIs(rres, ErrMaxRetryReached)
              /\ ErrorsIs(rres, rlog[n])
        /\ (shouldRetry(rlog[n]) /\ n < rmax) => rres = ErrCtx

\* C30 witness: a Retryer with the largest maxAttempts saw fn fail with a
\* timeout, then with errors wrapping ErrTransient, every time, and Do
\* returned the error that wraps ErrMaxRetryReached and the last of them.
C30_Witness ==
    /\ rpc = "returned"
    /\ rmax = MaxAttempts
    /\ Len(rlog) = MaxAttempts
    /\ rlog[1] = ErrNetTimeout
    /\ rlog[MaxAttempts] = ErrWrappedTransient
    /\ rres = ErrMaxRetryReached \cup ErrWrappedTransient

\* C31: once the context was cancelled while Do was blocked in a backoff,
\* waiting for the timer, Do calls fn no more: it is on its way out of the
\* backoff and makes no further attempt, and when it has returned it has
\* returned the context's error.
C31_CancelEndsBackoff ==
    rwhen = "waiting" =>
        /\ rpc \in {"cancelled", "returned"}
        /\ rpc = "returned" => rres = rctx /\ rres = ErrCtx

\* C31 witness: fn failed twice with an error to be retried, the context was
\* cancelled while Do waited in the second backoff, and Do returned the
\* context's error after those two calls.
C31_Witness ==
    /\ rwhen = "waiting"
    /\ rpc = "returned"
    /\ rres = ErrCtx
    /\ Len(rlog) = 2
    /\ rmax = MaxAttempts

\* C32: a worker exits only when the pool token is cancelled and the queue
\* holds no Future that is still to be run, so that the exit of the workers
\* leaves no accepted Future pending in the queue.
C32_WorkerExitsOnEmptyQueue ==
    [][\A w \in Workers :
          (wpc[w] # "exited" /\ wpc'[w] = "exited")
              => /\ IsShutdown(poolCause)
                 /\ \A k \in 1..Len(taskQueue) :
                        Accepted(futs[taskQueue[k]])
                            => IsDone(futs[taskQueue[k]])]_vars

\* The connections in the idle cache.
IdleConns(q) == {q[k] : k \in DOMAIN q}

\* C33: when the factory fails in an admitted Execute, the call returns the
\* factory's error without entering fn, with no connection, with the idle
\* cache and the connections as they were and with its slot given back.
C33_FactoryFailure ==
    [][\A e \in ExecCallers :
          (epc[e] = "factory" /\ nconn' = nconn /\ epc'[e] # "factory")
              => /\ epc'[e] = "returned"
                 /\ eres'[e] = ErrFactory
                 /\ econn'[e] = 0
                 /\ idleCons' = idleCons
                 /\ closedConns' = closedConns
                 /\ sema' = sema - 1
                 /\ e \notin Holders']_vars

\* C33 witness: the first call found the idle cache empty, its factory
\* failed and it returned the factory's error; nothing was dialled or cached
\* and no slot is held.
C33_Witness ==
    /\ ncalls = 1
    /\ \E e \in ExecCallers : epc[e] = "returned" /\ eres[e] = ErrFactory
    /\ nconn = 0
    /\ idleCons = << >>
    /\ sema = 0

\* C34: when Execute leaves after fn, the connection it used is closed if
\* Put found the pool shut down or the idle cache full, and is in the idle
\* cache otherwise: exactly one of the two; no connection of the idle cache
\* is closed and the idle cache holds at most PoolCap connections.
C34_PutCachesOrCloses ==
    [][/\ \A e \in ExecCallers :
            (epc[e] \in {"fn", "putsend"} /\ epc'[e] \notin {"fn", "putsend"})
                => LET c == econn[e] IN
                   /\ (c \in closedConns') # (c \in IdleConns(idleCons'))
                   /\ (c \in closedConns') <=>
                         IF epc[e] = "fn" THEN ConnIsShutdown
                         ELSE Len(idleCons) >= PoolCap
       /\ IdleConns(idleCons') \cap closedConns' = {}
       /\ Len(idleCons') <= PoolCap]_vars

\* C34 witness: fn returned on a pool whose Shutdown waits for the call,
\* Put closed the connection, and the idle cache is still open and empty.
C34_Witness ==
    /\ \E s \in ConnShutdownCallers : cspc[s] = "waiting"
    /\ InProgress = {}
    /\ ~idleClosed
    /\ idleCons = << >>
    /\ nconn = 1
    /\ closedConns = {1}
    /\ \E e \in ExecCallers : epc[e] = "returned" /\ eres[e] = Nil

\* C35: Execute called on a cancelled pool returns "already shutdown" at
\* once, and so does a call that holds a slot and comes to Get on a cancelled
\* pool: no fn, no factory, the idle cache untouched, the slot given back.
C35_ExecuteAfterShutdown ==
    [][\A e \in ExecCallers :
          (ConnIsShutdown /\ (ExecuteCall(e, 0) \/ ExecuteAdd(e)))
              => /\ epc'[e] = "returned"
                 /\ eres'[e] = ErrAlreadyShutdown
                 /\ idleCons' = idleCons
                 /\ nconn' = nconn
                 /\ econn'[e] = 0
                 /\ e \notin Holders']_vars

\* C35 witness: on a cancelled pool with a connection in the idle cache one
\* call has been refused at its entry and another, which passed that check
\* before the cancellation, holds a slot and is about to call Get.
C35_Witness ==
    /\ ConnIsShutdown
    /\ idleCons # << >>
    /\ \E e1, e2 \in ExecCallers :
          /\ epc[e1] = "admitted"
          /\ epc[e2] = "returned"
          /\ eres[e2] = ErrAlreadyShutdown

\* C36: the task of a Future is started at most once.
C36_TaskRunsAtMostOnce ==
    \A i \in DOMAIN futs : futs[i].runs <= 1

\* C37: once the idle cache is closed no Execute is at the select of Get or
\* of Put, so nothing is received from or sent to the closed channel, and fn
\* never runs on a nil connection.
C37_NoIdleTrafficAfterClose ==
    /\ idleClosed => \A e \in ExecCallers : epc[e] \notin {"getsel", "putsend"}
    /\ \A e \in ExecCallers : epc[e] \in {"fn", "putsend"} => econn[e] # 0
    /\ \A e \in ExecCallers : epc[e] = "panicked" => eres[e] = PanicFn

\* C37 witness: the idle cache has been closed, with a connection drained
\* from it, while a call that passed Execute's shutdown check holds a slot
\* and has yet to come to Get.
C37_Witness ==
    /\ idleClosed
    /\ closedConns # {}
    /\ \E e \in ExecCallers : epc[e] = "admitted"

\* C38: when the task of a Future that is not done returns, the Future is
\* done and Get returns the pair the task returned, whichever of the three
\* shapes it has.
C38_GetReturnsTaskPair ==
    [][\A g \in Runners :
          LET id == running[g] IN
          (/\ id # 0
           /\ running'[g] = 0
           /\ ~IsDone(futs[id])
           /\ ~TaskBody(futs[id].task).panics)
              => /\ IsDone(futs'[id])
                 /\ Get(futs'[id]) = <<TaskBody(futs[id].task).result,
                                        TaskBody(futs[id].task).err>>]_vars

\* C38 witness: no token was cancelled, the task returned a result and no
\* error, and Get returns that result and nil.
C38_Witness ==
    /\ Len(futs) >= 1
    /\ futs[1].task = "ok"
    /\ futs[1].runs = 1
    /\ \A t \in Tokens : tokErr[t] = Nil
    /\ \A g \in Runners : running[g] = 0
    /\ Get(futs[1]) = <<"r1", Nil>>

\* The futures in the queue.
Queued(q) == {q[k] : k \in DOMAIN q}

\* C39: a Submit on a shut-down pool or on a full queue leaves the queue and
\* the workers as they were and returns a Future that does not carry the
\* caller's task; the Future of a rejection is never in the queue, never
\* with a worker and never run.
C39_RejectedNeverRuns ==
    [][/\ (/\ Len(futs') = Len(futs) + 1
           /\ IsShutdown(poolCause) \/ Len(taskQueue) >= QueueCap)
              => /\ taskQueue' = taskQueue
                 /\ wfut' = wfut
                 /\ ~Accepted(futs'[Len(futs')])
       /\ \A i \in DOMAIN futs' :
             ~Accepted(futs'[i])
                 => /\ futs'[i].runs = 0
                    /\ i \notin Queued(taskQueue')
                    /\ \A w \in Workers : wfut'[w] # i]_vars

\* C39 witness: a Submit was rejected after others had been accepted; the
\* workers have run every accepted future and emptied the queue, and the
\* rejected one was never run.
C39_Witness ==
    /\ \E i \in DOMAIN futs :
          /\ futs[i].task \in {"stubFull", "stubShutdown"}
          /\ futs[i].runs = 0
          /\ i > 1
          /\ \A j \in 1..(i - 1) : Accepted(futs[j]) /\ futs[j].runs = 1
    /\ taskQueue = << >>
    /\ \A w \in Workers : wfut[w] = 0

====
